---------------------------- MODULE Spec2Model ----------------------------
(***************************************************************************)
(* A model of the jakarta interpolation engine.                            *)
(*                                                                         *)
(* Text is a sequence of one-character strings.  Two dialects of the       *)
(* engine live in the repository and are modelled side by side:            *)
(*   "crate" : jakarta/src/jakarta.rs  (escape marker, `:-` default,       *)
(*             three-argument handlers)                                    *)
(*   "root"  : src/jakarta.rs          (no escape marker, `#`/`?` field,   *)
(*             `:` default, four-argument handlers)                        *)
(* together with the cached interpolator of src/interpolator.rs            *)
(* ("cached": the root grammar with an alphanumeric type, and a per-call   *)
(* cache of fetched entries in place of the registry).                     *)
(* The matcher follows the regex crate's leftmost-first semantics: at a    *)
(* start position the first successful path of the priority-ordered        *)
(* backtracking search is the match.                                       *)
(***************************************************************************)
EXTENDS Integers, Sequences, FiniteSets, TLC

----------------------------------------------------------------------------
(* Options and small helpers *)

None == <<>>

Some(x) == <<x>>

IsSome(o) == o # <<>>

Unwrap(o) == o[1]

UnwrapOr(o, d) == IF o # <<>> THEN o[1] ELSE d

At(s, i) == IF i >= 1 /\ i <= Len(s) THEN s[i] ELSE ""

----------------------------------------------------------------------------
(* Character classes of the interpolation regex *)

(* `\s`: the ASCII whitespace characters, the last one the vertical tab    *)
(* U+000B.  The class also has U+0085, U+00A0, U+1680, U+2000 to U+200A,   *)
(* U+2028, U+2029, U+202F, U+205F and U+3000, which a text of the model    *)
(* cannot hold. *)
IsWs(c) == c \in {" ", "\n", "\t", "\r", "\f", ""}

(* Variant of IsDot: the default written `[^{}\n]+` instead of `.+`. *)
IsDot_NoBrace(c) == c # "" /\ c \notin {"\n", "{", "}"}

IsDot(c) == c # "" /\ c # "\n"

(* Variant of IsNotBrace: the class written `[^}]`. *)
IsNotBrace_OnlyClose(c) == c # "" /\ c # "}"

IsNotBrace(c) == c # "" /\ c \notin {"{", "}"}

AlnumChars ==
    {"a","b","c","d","e","f","g","h","i","j","k","l","m","n","o","p","q","r",
     "s","t","u","v","w","x","y","z","A","B","C","D","E","F","G","H","I","J",
     "K","L","M","N","O","P","Q","R","S","T","U","V","W","X","Y","Z","0","1",
     "2","3","4","5","6","7","8","9"}

WordChars ==
    {"a","b","c","d","e","f","g","h","i","j","k","l","m","n","o","p","q","r",
     "s","t","u","v","w","x","y","z","A","B","C","D","E","F","G","H","I","J",
     "K","L","M","N","O","P","Q","R","S","T","U","V","W","X","Y","Z","0","1",
     "2","3","4","5","6","7","8","9","-","_"}

IsCommandChar(v, c) ==
    IF v = "crate" THEN c # "" /\ c # ":"
    ELSE IF v = "cached" THEN c \in AlnumChars
    ELSE c \in WordChars

HasExclude(v) == v = "crate"

HasField(v) == v # "crate"

DefaultDelim(v) == IF v = "crate" THEN <<":", "-">> ELSE <<":">>

RECURSIVE WsRun(_, _)
WsRun(s, i) == IF i <= Len(s) /\ IsWs(s[i]) THEN 1 + WsRun(s, i + 1) ELSE 0

RECURSIVE DotRun(_, _)
DotRun(s, i) == IF i <= Len(s) /\ IsDot(s[i]) THEN 1 + DotRun(s, i + 1) ELSE 0

RECURSIVE NotBraceRun(_, _)
NotBraceRun(s, i) ==
    IF i <= Len(s) /\ IsNotBrace(s[i]) THEN 1 + NotBraceRun(s, i + 1) ELSE 0

RECURSIVE CommandRun(_, _, _)
CommandRun(v, s, i) ==
    IF i <= Len(s) /\ IsCommandChar(v, s[i])
    THEN 1 + CommandRun(v, s, i + 1) ELSE 0

HasPrefixAt(s, i, t) ==
    /\ i >= 1
    /\ i + Len(t) - 1 <= Len(s)
    /\ SubSeq(s, i, i + Len(t) - 1) = t

----------------------------------------------------------------------------
(* The matcher, innermost piece first.  Each piece is one quantifier of    *)
(* the pattern followed by the rest of the pattern: it tries its choices   *)
(* in the regex's priority order (greedy: longest first, lazy: shortest    *)
(* first) and returns the first one for which the rest matches, as a       *)
(* record of the captures and of the position of the closing brace.        *)

Fail == [ok |-> FALSE, start |-> 0, end |-> 0, full |-> <<>>,
         exclude |-> None, command |-> None, args |-> None, field |-> None,
         default_value |-> None]

Closed(e) == [Fail EXCEPT !.ok = TRUE, !.end = e]

(* The first alternative if it matches, else the second.  The singleton   *)
(* set binds r to the value of a, so that a is evaluated once; the pieces  *)
(* below bind their positions and run lengths the same way. *)
OrElse(a, b) == CHOOSE z \in {IF r.ok THEN r ELSE b : r \in {a}} : TRUE

WithDefault(a, t) ==
    CHOOSE z \in {IF r.ok THEN [r EXCEPT !.default_value = Some(t)] ELSE r : r \in {a}} :
        TRUE

WithField(a, t) ==
    CHOOSE z \in {IF r.ok THEN [r EXCEPT !.field = Some(t)] ELSE r : r \in {a}} :
        TRUE

WithArgs(a, t) ==
    CHOOSE z \in {IF r.ok THEN [r EXCEPT !.args = Some(t)] ELSE r : r \in {a}} :
        TRUE

WithCommand(a, t) ==
    CHOOSE z \in {IF r.ok THEN [r EXCEPT !.command = Some(t)] ELSE r : r \in {a}} :
        TRUE

WithExclude(a, t) ==
    CHOOSE z \in {IF r.ok THEN [r EXCEPT !.exclude = Some(t)] ELSE r : r \in {a}} :
        TRUE

(* `\s*?}` from position r with x whitespace characters taken so far:      *)
(* lazy, so the brace is tried before one more whitespace character. *)
RECURSIVE CloseFrom(_, _, _)
CloseFrom(s, r, x) ==
    IF At(s, r + x) = "}" THEN Closed(r + x)
    ELSE IF IsWs(At(s, r + x)) THEN CloseFrom(s, r, x + 1)
    ELSE Fail

(* Variant of CloseAt: the end of the text closes a placeholder too. *)
CloseAt_OrEnd(s, r) ==
    IF r = Len(s) + 1 THEN Closed(Len(s)) ELSE CloseFrom(s, r, 0)

CloseAt(s, r) == CloseFrom(s, r, 0)

(* `(?P<default_value>.+)` from position b, then the close: greedy, n      *)
(* characters tried from the longest run down to one. *)
RECURSIVE DefaultFrom(_, _, _)
DefaultFrom(s, b, n) ==
    IF n < 1 THEN Fail
    ELSE OrElse(WithDefault(CloseAt(s, b + n), SubSeq(s, b, b + n - 1)),
                DefaultFrom(s, b, n - 1))

(* `(?:DELIM(?P<default_value>.+)){0,1}\s*?}` from position r: the greedy  *)
(* optional default group first, else no default. *)
DefaultClose(v, s, r) ==
    OrElse(IF HasPrefixAt(s, r, DefaultDelim(v))
           THEN CHOOSE z \in {DefaultFrom(s, b, n) :
                                b \in {r + Len(DefaultDelim(v))},
                                n \in {DotRun(s, r + Len(DefaultDelim(v)))}} :
                    TRUE
           ELSE Fail,
           CloseAt(s, r))

(* `(?P<field>[^{}]*?)` from position b, then the rest: lazy, n characters *)
(* tried from none up. *)
RECURSIVE FieldFrom(_, _, _, _, _)
FieldFrom(v, s, b, n, max) ==
    IF n > max THEN Fail
    ELSE OrElse(WithField(DefaultClose(v, s, b + n), SubSeq(s, b, b + n - 1)),
                FieldFrom(v, s, b, n + 1, max))

(* `(?:(#|\?)(?P<field>[^{}]*?)){0,1}?` then the default and the close:    *)
(* the lazy optional field group is skipped first.  The crate dialect has  *)
(* no field group. *)
FieldDefaultClose(v, s, r) ==
    OrElse(DefaultClose(v, s, r),
           IF HasField(v) /\ At(s, r) \in {"#", "?"}
           THEN CHOOSE z \in {FieldFrom(v, s, b, 0, max) :
                                b \in {r + 1},
                                max \in {NotBraceRun(s, r + 1)}} : TRUE
           ELSE Fail)

(* `\s*` (greedy) after the args, then the rest. *)
RECURSIVE TailFrom(_, _, _, _)
TailFrom(v, s, q, w) ==
    IF w < 0 THEN Fail
    ELSE OrElse(FieldDefaultClose(v, s, q + w), TailFrom(v, s, q, w - 1))

TailAt(v, s, q) ==
    CHOOSE z \in {TailFrom(v, s, q0, w) : q0 \in {q}, w \in {WsRun(s, q)}} :
        TRUE

(* `(?P<args>[^{}]+?)` from position a: lazy, shortest first. *)
RECURSIVE ArgsFrom(_, _, _, _, _)
ArgsFrom(v, s, a, n, max) ==
    IF n > max THEN Fail
    ELSE OrElse(WithArgs(TailAt(v, s, a + n), SubSeq(s, a, a + n - 1)),
                ArgsFrom(v, s, a, n + 1, max))

ArgsAt(v, s, a) ==
    CHOOSE z \in {ArgsFrom(v, s, a0, 1, max) :
                    a0 \in {a}, max \in {NotBraceRun(s, a)}} : TRUE

(* `\s*` (greedy) after the colon, then the args. *)
RECURSIVE AfterColonFrom(_, _, _, _)
AfterColonFrom(v, s, c, w) ==
    IF w < 0 THEN Fail
    ELSE OrElse(ArgsAt(v, s, c + w), AfterColonFrom(v, s, c, w - 1))

AfterColon(v, s, c) ==
    CHOOSE z \in {AfterColonFrom(v, s, c0, w) :
                    c0 \in {c}, w \in {WsRun(s, c)}} : TRUE

(* `\s*:` (greedy) after a command that ends before position e. *)
RECURSIVE ColonFrom(_, _, _, _)
ColonFrom(v, s, e, w) ==
    IF w < 0 THEN Fail
    ELSE OrElse(IF At(s, e + w) = ":" THEN AfterColon(v, s, e + w + 1)
                ELSE Fail,
                ColonFrom(v, s, e, w - 1))

ColonAt(v, s, e) ==
    CHOOSE z \in {ColonFrom(v, s, e0, w) : e0 \in {e}, w \in {WsRun(s, e)}} :
        TRUE

(* `(?P<command>...+)` from position k: greedy, longest first. *)
RECURSIVE CommandFrom(_, _, _, _)
CommandFrom(v, s, k, n) ==
    IF n < 1 THEN Fail
    ELSE OrElse(WithCommand(ColonAt(v, s, k + n), SubSeq(s, k, k + n - 1)),
                CommandFrom(v, s, k, n - 1))

CommandAt(v, s, k) ==
    CHOOSE z \in {CommandFrom(v, s, k0, n) :
                    k0 \in {k}, n \in {CommandRun(v, s, k)}} : TRUE

(* The optional inner group from position j (just after the brace): its    *)
(* leading `\s*` is greedy. *)
RECURSIVE InnerFrom(_, _, _, _)
InnerFrom(v, s, j, w) ==
    IF w < 0 THEN Fail
    ELSE OrElse(CommandAt(v, s, j + w), InnerFrom(v, s, j, w - 1))

InnerAt(v, s, j) ==
    CHOOSE z \in {InnerFrom(v, s, j0, w) : j0 \in {j}, w \in {WsRun(s, j)}} :
        TRUE

(* `\{(?:inner){0,1}}` from position j: the inner group is tried first,    *)
(* then the empty placeholder. *)
BodyAt(v, s, j) ==
    IF At(s, j) # "{" THEN Fail
    ELSE OrElse(InnerAt(v, s, j + 1),
                IF At(s, j + 1) = "}" THEN Closed(j + 1) ELSE Fail)

(* One placeholder match starting at position i: `\$(?P<exclude>\$){0,1}`   *)
(* then the body; the exclude group is greedy. *)
MatchFrom(v, s, i) ==
    IF At(s, i) # "$" THEN Fail
    ELSE CHOOSE z \in
           {IF r.ok THEN [r EXCEPT !.start = i, !.full = SubSeq(s, i, r.end)]
            ELSE r :
              r \in {OrElse(IF HasExclude(v) /\ At(s, i + 1) = "$"
                            THEN WithExclude(BodyAt(v, s, i + 2), <<"$">>)
                            ELSE Fail,
                            BodyAt(v, s, i + 1))}} : TRUE

MatchAt(v, s, i) ==
    CHOOSE z \in {MatchFrom(v, s0, i0) : s0 \in {s}, i0 \in {i}} : TRUE

(* Regex::captures_iter: the successive non-overlapping leftmost matches. *)
RECURSIVE CapturesFrom(_, _, _)
CapturesFrom(v, s, i) ==
    IF i > Len(s) THEN <<>>
    ELSE CHOOSE z \in
           {IF m.ok THEN <<m>> \o CapturesFrom(v, s, m.end + 1)
            ELSE CapturesFrom(v, s, i + 1) : m \in {MatchAt(v, s, i)}} : TRUE

captures_iter(v, s) == CapturesFrom(v, s, 1)

(* Regex::is_match *)
is_match(v, s) == \E i \in 1..Len(s) : MatchAt(v, s, i).ok

(* str::replace: every non-overlapping occurrence, left to right. *)
RECURSIVE ReplaceFrom(_, _, _, _)
ReplaceFrom(s, from, to, i) ==
    IF i + Len(from) - 1 > Len(s) THEN SubSeq(s, i, Len(s))
    ELSE IF SubSeq(s, i, i + Len(from) - 1) = from
    THEN to \o ReplaceFrom(s, from, to, i + Len(from))
    ELSE <<s[i]>> \o ReplaceFrom(s, from, to, i + 1)

(* Variant of replace: only the first occurrence is replaced (replacen    *)
(* with a count of one). *)
replace_first(s, from, to) ==
    IF \E i \in 1..Len(s) : HasPrefixAt(s, i, from)
    THEN LET i == CHOOSE i \in 1..Len(s) :
                      /\ HasPrefixAt(s, i, from)
                      /\ \A j \in 1..(i - 1) : ~HasPrefixAt(s, j, from)
         IN  SubSeq(s, 1, i - 1) \o to \o SubSeq(s, i + Len(from), Len(s))
    ELSE s

replace(s, from, to) == ReplaceFrom(s, from, to, 1)

(* str::strip_prefix(..).unwrap_or(..) *)
strip_prefix_or(s, prefix) ==
    IF HasPrefixAt(s, 1, prefix) THEN SubSeq(s, Len(prefix) + 1, Len(s)) ELSE s

----------------------------------------------------------------------------
(* Text constants *)

s_env == <<"e","n","v">>

s_test == <<"t","e","s","t">>

s_test_2 == <<"t","e","s","t","_","2">>

s_foo == <<"f","o","o">>

s_default == <<"d","e","f","a","u","l","t">>

s_asd == <<"a","s","d"," ">>

s_b == <<" ","b">>

s_123 == <<"1","2","3">>

s_VAR_KEY == <<"V","A","R","_","K","E","Y">>

s_VAR_VALUE == <<"V","A","R","_","V","A","L","U","E">>

s_UNSET_KEY == <<"U","N","S","E","T","_","K","E","Y">>

s_VAR_ == <<"V","A","R","_">>

s_VAR_1 == <<"V","A","R","_","1">>

s_VAR_2 == <<"V","A","R","_","2">>

s_VAR_3 == <<"V","A","R","_","3">>

s_2 == <<"2">>

s_LOOP == <<"L","O","O","P">>

s_sh == <<"s","h">>

s_printf_1 == <<"p","r","i","n","t","f"," ","1">>

s_tick == <<"t","i","c","k">>

s_my_default_value ==
    <<"m","y"," ","d","e","f","a","u","l","t"," ","v","a","l","u","e">>

s_default_value == <<"d","e","f","a","u","l","t","_","v","a","l","u","e">>

(* The text of a placeholder of the crate dialect: ${c:p} or ${c:p:-d}. *)
Ph(c, p, d) ==
    <<"$", "{">> \o c \o <<":">> \o p
      \o (IF IsSome(d) THEN <<":", "-">> \o Unwrap(d) ELSE <<>>) \o <<"}">>

(* The same placeholder with the escape marker in front. *)
Esc(t) == <<"$">> \o t

----------------------------------------------------------------------------
(* Handlers and the registry *)

(* The process environment read by EnvCommand.  VAR_1, VAR_2 and VAR_KEY   *)
(* are the variables the tests set; LOOP holds a placeholder naming        *)
(* itself.  Every other name is unset. *)
Environment ==
    (s_VAR_1 :> s_2) @@ (s_VAR_2 :> s_VAR_VALUE) @@ (s_VAR_KEY :> s_VAR_VALUE)
      @@ (s_LOOP :> Ph(s_env, s_LOOP, None))

(* std::env::var *)
env_var(key) ==
    IF key \in DOMAIN Environment THEN Some(Environment[key]) ELSE None

(* Variant of EnvCommand_process: an unset variable gives "" whatever the   *)
(* default. *)
EnvCommand_process_no_default(command, args, default_value) ==
    UnwrapOr(env_var(args), <<>>)

(* EnvCommand::process *)
EnvCommand_process(command, args, default_value) ==
    UnwrapOr(env_var(args), UnwrapOr(default_value, <<>>))

(* TestCommand::process of the tests: "test" echoes its path, "test_2" its *)
(* default. *)
TestCommand_process(command, args, default_value) ==
    IF command = s_test THEN args
    ELSE IF command = s_test_2 THEN UnwrapOr(default_value, s_default)
    ELSE <<>>

(* Decimal text of a natural number. *)
RECURSIVE Digits(_)
Digits(n) ==
    IF n < 10 THEN <<<<"0","1","2","3","4","5","6","7","8","9">>[n + 1]>>
    ELSE Digits(n \div 10) \o Digits(n % 10)

(* A script whose output is not UTF-8. *)
s_bad == <<"b","a","d">>

(* The text `sh -c args` prints in a world where w runs of `tick` have     *)
(* happened.  `printf word`, the word one or more letters and digits,      *)
(* prints the word; `tick` stands for a script that prints how many times  *)
(* it has run, this run included.  The other texts that reach the shell    *)
(* here (123, x, VAR_KEY, ...) name no command: the shell complains on     *)
(* stderr and stdout stays empty. *)
sh_output(args, w) ==
    LET printf == <<"p","r","i","n","t","f"," ">>
    IN  IF /\ Len(args) > Len(printf)
           /\ SubSeq(args, 1, Len(printf)) = printf
           /\ \A i \in (Len(printf) + 1)..Len(args) : args[i] \in AlnumChars
        THEN SubSeq(args, Len(printf) + 1, Len(args))
        ELSE IF args = s_tick THEN Digits(w + 1)
        ELSE <<>>

(* The bytes `sh -c args` writes to its stdout: `bad` stands for a script  *)
(* that writes the byte 0xFF. *)
sh_stdout(args, w) ==
    IF args = s_bad THEN <<"0xFF">> ELSE sh_output(args, w)

(* String::from_utf8: the text, or Err when a byte is not UTF-8. *)
from_utf8(bytes) ==
    IF \E i \in 1..Len(bytes) : bytes[i] = "0xFF" THEN None ELSE Some(bytes)

(* What `Command::new("sh")...output()` may come to for a handler that     *)
(* runs the shell: TRUE, the shell ran and its output was collected; FALSE, *)
(* the process could not be spawned (no sh on the PATH, no process or      *)
(* descriptor left).  The other handlers spawn nothing. *)
spawn_results(h) == IF h \in {"sh_cmd", "Sh"} THEN BOOLEAN ELSE {TRUE}

(* ShCommand::process: the command's stdout; the default, or "", when the  *)
(* process could not be spawned or its stdout is not UTF-8. *)
ShCommand_process(command, args, default_value, w, spawned) ==
    IF spawned /\ IsSome(from_utf8(sh_stdout(args, w)))
    THEN Unwrap(from_utf8(sh_stdout(args, w)))
    ELSE UnwrapOr(default_value, <<>>)

(* The effect of a handler call on the world outside the program: a run of *)
(* `tick` that was spawned counts. *)
world_after(h, args, w, spawned) ==
    IF h = "sh_cmd" /\ args = s_tick /\ spawned THEN w + 1 ELSE w

Handlers == {"env_cmd", "test_cmd", "sh_cmd"}

(* The command_map the tests build: one TestCommand instance registered    *)
(* under "test" and "test_2", and (crate dialect) one EnvCommand and one   *)
(* ShCommand. *)
command_map(v) ==
    IF v = "crate"
    THEN (s_env :> "env_cmd") @@ (s_test :> "test_cmd")
           @@ (s_test_2 :> "test_cmd") @@ (s_sh :> "sh_cmd")
    ELSE (s_test :> "test_cmd") @@ (s_test_2 :> "test_cmd")

(* Variant of map_get: an unknown id falls back to the TestCommand. *)
map_get_fallback(v, command_id) ==
    IF command_id \in DOMAIN command_map(v)
    THEN Some(command_map(v)[command_id]) ELSE Some("test_cmd")

(* HashMap::get *)
map_get(v, command_id) ==
    IF command_id \in DOMAIN command_map(v)
    THEN Some(command_map(v)[command_id]) ELSE None

(* The mutex a dispatch locks: the one wrapped around the handler instance *)
(* (Arc<Mutex<dyn JakartaCommand>>), shared by every id it is registered   *)
(* under. *)
mutex_of(v, command_id) == Unwrap(map_get(v, command_id))

(* JakartaCommand::process through the trait object. *)
process(h, command, args, field, default_value, w, spawned) ==
    IF h = "env_cmd" THEN EnvCommand_process(command, args, default_value)
    ELSE IF h = "sh_cmd"
    THEN ShCommand_process(command, args, default_value, w, spawned)
    ELSE TestCommand_process(command, args, default_value)

(* `self.counter += 1` of the root dialect's TestCommand, whose counter is *)
(* a u8: the outcomes of the statement, Some(n) for the counter it leaves  *)
(* and None for a panic.  Up to 254 the sum fits.  At 255 it overflows,    *)
(* and what happens then is the build's choice: with overflow checks (the  *)
(* dev and test profiles) the statement panics with "attempt to add with   *)
(* overflow"; without them (the release profile) the counter wraps to 0.   *)
(* The crate dialect's handlers keep no state. *)
counter_after(v, h, c) ==
    IF v = "root" /\ h = "test_cmd"
    THEN IF c < 255 THEN {Some(c + 1)} ELSE {None, Some((c + 1) % 256)}
    ELSE {Some(c)}

----------------------------------------------------------------------------
(* Jakarta::replace_exclusions: one `$` stripped from every escaped match  *)
(* of the scan, by literal replacement over the whole string. *)
RECURSIVE ExclusionsFrom(_, _, _)
ExclusionsFrom(ms, k, res) ==
    IF k > Len(ms) THEN res
    ELSE IF IsSome(ms[k].exclude)
    THEN ExclusionsFrom(ms, k + 1,
            replace(res, ms[k].full,
                    strip_prefix_or(ms[k].full, Unwrap(ms[k].exclude))))
    ELSE ExclusionsFrom(ms, k + 1, res)

replace_exclusions(v, s) ==
    CHOOSE z \in {ExclusionsFrom(ms, 1, s) : ms \in {captures_iter(v, s)}} : TRUE

(* What interpolate_string returns once its loop is over. *)
returned_string(v, s) == IF v = "crate" THEN replace_exclusions(v, s) ELSE s

(* Variant of dispatches: a match that carries a default is not sent to    *)
(* its handler. *)
dispatches_without_default(v, m) ==
    /\ ~IsSome(m.exclude)
    /\ IsSome(m.command)
    /\ IsSome(m.args)
    /\ ~IsSome(m.default_value)
    /\ IsSome(map_get(v, Unwrap(m.command)))

(* Whether the for loop of replace_values dispatches match m to a handler. *)
dispatches(v, m) ==
    /\ ~IsSome(m.exclude)
    /\ IsSome(m.command)
    /\ IsSome(m.args)
    /\ IsSome(map_get(v, Unwrap(m.command)))

(* Variant of no_handler_value: the default, when there is one. *)
no_handler_value_default(m) == UnwrapOr(m.default_value, <<>>)

(* The value of a match that reaches no handler: the `"".to_owned()` of    *)
(* the three else branches. *)
no_handler_value(m) == <<>>

(* Variant of call_args: the default is not passed on. *)
call_args_no_default(m) ==
    [command |-> Unwrap(m.command), args |-> Unwrap(m.args),
     field |-> m.field, default_value |-> None]

(* The arguments handed to process for match m. *)
call_args(m) ==
    [command |-> Unwrap(m.command), args |-> Unwrap(m.args),
     field |-> m.field, default_value |-> m.default_value]

(* Variant of loop_breaks: the loop stops after every pass. *)
loop_breaks_always(v, excl) == TRUE

(* `if exclusion_only { break; }` of interpolate_string; the root dialect  *)
(* has no such exit. *)
loop_breaks(v, excl) == v = "crate" /\ excl

(* Variant of owner_after_return: the guard outlives the call. *)
owner_after_return_kept(own, h) == own

(* The mutexes once process has returned: the guard of `lock().await` is   *)
(* a temporary of the call expression and is dropped with it. *)
owner_after_return(own, h) == [own EXCEPT ![h] = 0]

(* Variant of lock_ready: lock never waits. *)
lock_ready_always(own, h) == TRUE

(* Mutex::lock completes only while no guard of that mutex is alive. *)
lock_ready(own, h) == own[h] = 0

----------------------------------------------------------------------------
(* The cached interpolator (src/interpolator.rs): entries, the fetch and   *)
(* the cache *)

s_kv1 == <<"k","v","1">>

s_kv2 == <<"k","v","2">>

s_db == <<"d","b">>

s_username == <<"u","s","e","r","n","a","m","e">>

s_password == <<"p","a","s","s","w","o","r","d">>

s_u == <<"u">>

s_pw == <<"p","w">>

s_a == <<"a">>

s_x == <<"x">>

(* EntryType::from_str: Ok(type) or Err. *)
EntryType_from_str(str) ==
    IF str = s_kv1 THEN Some("Kv1")
    ELSE IF str = s_kv2 THEN Some("Kv2")
    ELSE IF str = s_db THEN Some("Db")
    ELSE IF str = s_env THEN Some("Env")
    ELSE IF str = s_sh THEN Some("Sh")
    ELSE None

(* What a read of the vault may come to.  "Error": the request failed or  *)
(* the vault answered with errors.  "Response" with data None: the vault   *)
(* answered without data.  "Response" with Some(secret): a document with   *)
(* the one field "username" for kv1 and kv2, a username and a password for *)
(* db.  env and sh do not ask the vault. *)
VaultResponses(entry_type) ==
    IF entry_type = "Db"
    THEN {[tag |-> "Error", data |-> None], [tag |-> "Response", data |-> None],
          [tag |-> "Response", data |-> Some(<<s_u, s_pw>>)]}
    ELSE IF entry_type \in {"Kv1", "Kv2"}
    THEN {[tag |-> "Error", data |-> None], [tag |-> "Response", data |-> None],
          [tag |-> "Response", data |-> Some(s_username :> s_u)]}
    ELSE {[tag |-> "Error", data |-> None]}

(* `.expect("failed to execute process")` of the Sh arm: fetch_entry       *)
(* panics when the shell could not be spawned. *)
fetch_entry_panics(entry_type, spawned) == entry_type = "Sh" /\ ~spawned

(* fetch_entry: the Entry of the type, fetched from the vault (whose       *)
(* answer is resp), the environment or the shell (which was spawned).  A   *)
(* kv entry holds Ok(document), here Some(document), or Err, here None; a  *)
(* kv1 response without data is Ok of the document with no field (<<>>),   *)
(* a kv2 response without data is Err.  A db entry holds the credentials or None.  For    *)
(* env and sh the default of the placeholder being resolved goes into the  *)
(* entry when the lookup gives nothing. *)
fetch_entry(entry_type, secret_path, default_value, w, resp) ==
    IF entry_type = "Kv1"
    THEN [kind |-> "Kv1",
          val |-> IF resp.tag = "Response"
                  THEN Some(UnwrapOr(resp.data, <<>>))
                  ELSE None]
    ELSE IF entry_type = "Kv2"
    THEN [kind |-> "Kv2",
          val |-> IF resp.tag = "Response" THEN resp.data ELSE None]
    ELSE IF entry_type = "Db"
    THEN [kind |-> "Db",
          val |-> IF resp.tag = "Response" THEN resp.data ELSE None]
    ELSE IF entry_type = "Env"
    THEN [kind |-> "Env",
          val |-> IF IsSome(env_var(secret_path)) THEN env_var(secret_path)
                  ELSE default_value]
    ELSE [kind |-> "Sh",
          val |-> IF IsSome(from_utf8(sh_stdout(secret_path, w)))
                  THEN from_utf8(sh_stdout(secret_path, w))
                  ELSE default_value]

(* The match arms that turn an entry into the placeholder's value: the     *)
(* field of a kv document, the username or password of db credentials,     *)
(* the text of env and sh; the default where the entry has nothing for     *)
(* this placeholder, and "" for a failed vault read or no entry at all. *)
entry_value(entry, field, default_value) ==
    IF ~IsSome(entry) THEN <<>>
    ELSE LET e == Unwrap(entry)
         IN  IF e.kind \in {"Kv1", "Kv2"}
             THEN IF IsSome(e.val)
                  THEN IF field \in DOMAIN Unwrap(e.val)
                       THEN Unwrap(e.val)[field]
                       ELSE UnwrapOr(default_value, <<>>)
                  ELSE <<>>
             ELSE IF e.kind = "Db"
             THEN IF IsSome(e.val)
                  THEN IF field = s_username THEN Unwrap(e.val)[1]
                       ELSE IF field = s_password THEN Unwrap(e.val)[2]
                       ELSE UnwrapOr(default_value, <<>>)
                  ELSE <<>>
             ELSE IF IsSome(e.val) THEN Unwrap(e.val)
                  ELSE UnwrapOr(default_value, <<>>)

(* HashMap::insert *)
map_insert(m, k, x) == [y \in DOMAIN m \cup {k} |-> IF y = k THEN x ELSE m[y]]

(* The cache once a match of (type_name, path) has been looked at: the     *)
(* type's map and the path's slot exist, the slot None if it was not       *)
(* there. *)
cache_touched(cache, type_name, path) ==
    LET c1 == IF type_name \in DOMAIN cache THEN cache
              ELSE map_insert(cache, type_name, <<>>)
    IN  IF path \in DOMAIN c1[type_name] THEN c1
        ELSE map_insert(c1, type_name, map_insert(c1[type_name], path, None))

(* Variant of cached_entry: the slot is never found filled. *)
cached_entry_never(cache, type_name, path) == None

(* interpolation_entry: the slot of (type_name, path), None until a fetch  *)
(* has filled it. *)
cached_entry(cache, type_name, path) ==
    cache_touched(cache, type_name, path)[type_name][path]

(* interpolation_path_map.insert(path, Some(entry)) *)
cache_stored(cache, type_name, path, entry) ==
    map_insert(cache, type_name, map_insert(cache[type_name], path, Some(entry)))

(* Variant of new_cache: the cache outlives the call. *)
new_cache_kept(old) == old

(* `let mut interpolations = HashMap::new()` at the start of a call. *)
new_cache(old) == <<>>

(* `value.name("field")`, "" when the match has none. *)
field_of(m) == UnwrapOr(m.field, <<>>)

(* Whether the match has both a type and a path (the two `if let`). *)
has_type_and_path(m) == IsSome(m.command) /\ IsSome(m.args)

(* The runs of `tick` once an entry of this type and path was fetched: a   *)
(* run that was spawned counts. *)
world_after_fetch(entry_type, path, w, spawned) ==
    IF entry_type = "Sh" /\ path = s_tick /\ spawned THEN w + 1 ELSE w

----------------------------------------------------------------------------
(* Bounds *)

NumProcs == 2

MaxCalls == 2

MaxLog == 4

MaxPasses == 4

(* The calls of a run on the root dialect: the first MaxCalls of them take *)
(* any of RootInputs, the later ones a text of LongRunInputs, enough of    *)
(* them to carry the u8 counter of the TestCommand past 255. *)
MaxRootCalls == 258

Procs == 1..NumProcs

----------------------------------------------------------------------------
(* Inputs *)

Surroundings == {[pre |-> <<>>, post |-> <<>>], [pre |-> s_asd, post |-> <<>>],
                 [pre |-> s_asd, post |-> s_b]}

(* One placeholder, ${c:p} or ${c:p:-d}, in plain text. *)
PlainCases ==
    {[pre |-> x.pre, post |-> x.post, c |-> c, p |-> p, d |-> d] :
        x \in Surroundings,
        c \in {s_env, s_test, s_test_2, s_foo},
        p \in {s_123, s_VAR_KEY, s_UNSET_KEY},
        d \in {None, Some(s_default_value), Some(s_my_default_value)}}

PlainText(r) == r.pre \o Ph(r.c, r.p, r.d) \o r.post

(* A placeholder nested in the path of another: ${c:P${c:Q}}. *)
NestedCases ==
    {[pre |-> x.pre, post |-> x.post, c |-> c, outer |-> pq[1], q |-> pq[2]] :
        x \in Surroundings,
        c \in {s_env, s_test, s_foo},
        pq \in {<<s_VAR_, s_VAR_1>>, <<s_VAR_, s_VAR_3>>, <<s_123, s_2>>}}

NestedText(r) ==
    r.pre \o <<"$", "{">> \o r.c \o <<":">> \o r.outer \o Ph(r.c, r.q, None)
          \o <<"}">> \o r.post

(* Escaped placeholders only: one, two identical ones, and one behind a    *)
(* further `$`. *)
EscapedCases ==
    {[pre |-> x.pre, post |-> x.post, c |-> c, p |-> s_123, d |-> d] :
        x \in Surroundings,
        c \in {s_test, s_foo},
        d \in {None, Some(s_default_value)}}

EscapedText(r) == r.pre \o Esc(Ph(r.c, r.p, r.d)) \o r.post

EscapedTwiceText(r) ==
    r.pre \o Esc(Ph(r.c, r.p, r.d)) \o <<" ">> \o Esc(Ph(r.c, r.p, r.d))
          \o r.post

EscapedDollarText(r) ==
    r.pre \o Esc(Ph(r.c, r.p, r.d)) \o <<" ">> \o Esc(Esc(Ph(r.c, r.p, r.d)))
          \o r.post

(* A placeholder whose default is itself placeholder text. *)
DefaultCases ==
    {[pre |-> x.pre, post |-> x.post, c |-> cp[1], p |-> cp[2],
      dc |-> dcp[1], dp |-> dcp[2]] :
        x \in Surroundings,
        cp \in {<<s_env, s_UNSET_KEY>>, <<s_env, s_VAR_KEY>>,
                <<s_test_2, s_123>>, <<s_foo, s_123>>},
        dcp \in {<<s_env, s_VAR_1>>, <<s_test, s_123>>, <<s_foo, s_123>>}}

DefaultText(r) ==
    r.pre \o Ph(r.c, r.p, Some(Ph(r.dc, r.dp, None))) \o r.post

(* The inputs of the tests that are none of the above. *)
TestInputs ==
    {s_asd \o Ph(s_test, s_123, None) \o <<" ">> \o Ph(s_test_2, s_123, None),
     s_asd \o Ph(s_test, s_123, None) \o <<" ">>
           \o Ph(s_test_2, s_123, Some(s_my_default_value)),
     s_asd \o <<"$", "{">> \o s_env \o <<":">> \o s_VAR_
           \o Ph(s_env, s_VAR_3, Some(s_2)) \o <<"}">>,
     s_asd \o Ph(s_test, s_123, None) \o <<" ">> \o Ph(s_test, s_123, None),
     s_asd}

(* Texts in which the pattern matches nowhere: plain text, the empty      *)
(* text, a placeholder that is never closed, braces without the dollar, a  *)
(* dollar apart from its brace, and braces around a word with no colon. *)
NoMatchTexts ==
    {s_asd, <<>>,
     s_asd \o <<"$", "{">> \o s_test \o <<":">> \o s_123,
     s_asd \o <<"{">> \o s_test \o <<":">> \o s_123 \o <<"}">>,
     <<"$", " ", "{">> \o s_test \o <<":">> \o s_123 \o <<"}">>,
     <<"$", "{">> \o s_test \o <<"}">> \o s_b}

(* An escaped placeholder next to a non-escaped one: the same text, or     *)
(* another command, before it or after it. *)
MixedCases ==
    {[pre |-> x.pre, post |-> x.post, c |-> c, p |-> s_123, oc |-> o[1],
      op |-> o[2], first |-> f] :
        x \in Surroundings,
        c \in {s_test, s_foo},
        o \in {<<s_test, s_123>>, <<s_foo, s_123>>, <<s_env, s_VAR_KEY>>},
        f \in BOOLEAN}

MixedText(r) ==
    r.pre
      \o (IF r.first
          THEN Esc(Ph(r.c, r.p, None)) \o <<" ">> \o Ph(r.oc, r.op, None)
          ELSE Ph(r.oc, r.op, None) \o <<" ">> \o Esc(Ph(r.c, r.p, None)))
      \o r.post

(* Two placeholders on one line, the first with a brace-free default:      *)
(* ${c:p:-d} t ${c2:p2}. *)
TwoCases ==
    {[pre |-> x.pre, post |-> x.post, c |-> cp[1], p |-> cp[2], d |-> d,
      t |-> t, c2 |-> cp2[1], p2 |-> cp2[2]] :
        x \in Surroundings,
        cp \in {<<s_env, s_UNSET_KEY>>, <<s_env, s_VAR_KEY>>,
                <<s_test_2, s_123>>},
        d \in {s_default_value, s_2},
        t \in {<<" ">>, s_b \o <<" ">>},
        cp2 \in {<<s_test, s_123>>, <<s_env, s_VAR_KEY>>}}

TwoText(r) ==
    r.pre \o Ph(r.c, r.p, Some(r.d)) \o r.t \o Ph(r.c2, r.p2, None) \o r.post

(* The same placeholder several times in one text, placeholders of several *)
(* handlers side by side, and scripts with and without a default. *)
RepeatInputs ==
    {Ph(s_sh, s_tick, None) \o <<" ">> \o Ph(s_sh, s_tick, None),
     s_asd \o Ph(s_sh, s_tick, None) \o s_b \o Ph(s_sh, s_tick, None)
           \o <<" ">> \o Ph(s_sh, s_tick, None),
     Ph(s_sh, s_tick, None) \o Ph(s_test, s_123, None)
           \o Ph(s_sh, s_tick, None),
     s_asd \o Ph(s_sh, s_printf_1, None),
     s_asd \o Ph(s_sh, s_bad, None),
     s_asd \o Ph(s_sh, s_bad, Some(s_default_value)),
     Ph(s_sh, s_printf_1, Some(s_2)),
     Ph(s_sh, s_tick, None) \o <<" ">> \o Ph(s_env, s_VAR_KEY, None)
           \o <<" ">> \o Ph(s_test, s_123, None)}

(* The empty placeholder ${}: alone, in plain text, and followed by        *)
(* another placeholder on the same line. *)
EmptyCases ==
    {[pre |-> x.pre, post |-> x.post, then |-> th] :
        x \in Surroundings,
        th \in {None, Some(<<s_test, s_123>>), Some(<<s_foo, s_123>>)}}

EmptyText(r) ==
    r.pre \o <<"$", "{", "}">>
      \o (IF IsSome(r.then)
          THEN <<" ">> \o Ph(Unwrap(r.then)[1], Unwrap(r.then)[2], None)
          ELSE <<>>)
      \o r.post

(* One placeholder with optional whitespace at each of the four places the *)
(* pattern has a `\s*` (a blank at any of them, or a carriage return, a    *)
(* form feed, a tab and a carriage return, or a vertical tab at all four), *)
(* and a default that starts and ends with a blank: ${ c : p } and         *)
(* ${ c : p :- d }. *)
SpacedCases ==
    {[pre |-> x.pre, post |-> x.post, c |-> c, p |-> s_123, d |-> d,
      w1 |-> w[1], w2 |-> w[2], w3 |-> w[3], w4 |-> w[4]] :
        x \in {[pre |-> <<>>, post |-> <<>>], [pre |-> s_asd, post |-> s_b]},
        c \in {s_test, s_test_2, s_foo},
        d \in {None, Some(<<" ">> \o s_2 \o <<" ">>)},
        w \in [1..4 -> {<<>>, <<" ">>}]
                 \cup {[i \in 1..4 |-> <<"\r">>], [i \in 1..4 |-> <<"\f">>],
                       [i \in 1..4 |-> <<"\t", "\r">>],
                       [i \in 1..4 |-> <<"">>]}}

SpacedText(r) ==
    r.pre \o <<"$", "{">> \o r.w1 \o r.c \o r.w2 \o <<":">> \o r.w3 \o r.p
          \o r.w4
          \o (IF IsSome(r.d) THEN <<":", "-">> \o Unwrap(r.d) ELSE <<>>)
          \o <<"}">> \o r.post

SpacedInputs == {SpacedText(r) : r \in SpacedCases}

(* The text of a placeholder of the cached interpolator: ${t:p},           *)
(* ${t:p#f}, ${t:p:d} or ${t:p#f:d}. *)
PhCached(t, p, f, d) ==
    <<"$", "{">> \o t \o <<":">> \o p
      \o (IF IsSome(f) THEN <<"#">> \o Unwrap(f) ELSE <<>>)
      \o (IF IsSome(d) THEN <<":">> \o Unwrap(d) ELSE <<>>) \o <<"}">>

(* The (type, path) pairs of the cached inputs: a set variable, an unset   *)
(* one, a script with a different output at every run, a script whose      *)
(* output is not text, vault reads, and an unknown type. *)
CachedPairs ==
    {<<s_env, s_VAR_KEY>>, <<s_env, s_UNSET_KEY>>, <<s_sh, s_tick>>,
     <<s_sh, s_bad>>, <<s_db, s_x>>, <<s_kv1, s_x>>, <<s_kv2, s_x>>,
     <<s_foo, s_x>>}

(* One placeholder in plain text. *)
CachedOneCases ==
    {[pre |-> x.pre, post |-> x.post, t |-> tp[1], p |-> tp[2], f |-> f,
      d |-> d] :
        x \in {[pre |-> <<>>, post |-> <<>>], [pre |-> s_asd, post |-> s_b]},
        tp \in CachedPairs,
        f \in {None, Some(s_username)},
        d \in {None, Some(s_a)}}

CachedOneText(r) == r.pre \o PhCached(r.t, r.p, r.f, r.d) \o r.post

(* Two placeholders of the same type and path on two lines, each with its  *)
(* own field and default: ${t:p#f1:d1} \n ${t:p#f2:d2}. *)
CachedTwoCases ==
    {[t |-> tp[1], p |-> tp[2], f1 |-> f[1], f2 |-> f[2], d1 |-> d[1],
      d2 |-> d[2]] :
        tp \in CachedPairs,
        f \in {<<None, None>>, <<Some(s_username), Some(s_password)>>},
        d \in {<<None, None>>, <<None, Some(s_b)>>, <<Some(s_a), None>>,
               <<Some(s_a), Some(s_b)>>, <<Some(s_a), Some(s_a)>>}}

CachedTwoText(r) ==
    PhCached(r.t, r.p, r.f1, r.d1) \o <<"\n">> \o PhCached(r.t, r.p, r.f2, r.d2)

(* A placeholder whose type and path come back in a later pass, out of a   *)
(* default: ${t:p} \n ${env:UNSET_KEY:${t:p}}. *)
CachedLaterCases ==
    {[t |-> tp[1], p |-> tp[2]] : tp \in CachedPairs}

CachedLaterText(r) ==
    PhCached(r.t, r.p, None, None) \o <<"\n">>
      \o PhCached(s_env, s_UNSET_KEY, None,
                  Some(PhCached(r.t, r.p, None, None)))

(* The empty placeholder ${}: in plain text, and before or after another   *)
(* placeholder. *)
CachedEmptyCases ==
    {[pre |-> x.pre, post |-> x.post] :
        x \in {[pre |-> <<>>, post |-> <<>>], [pre |-> s_asd, post |-> s_b],
               [pre |-> <<>>, post |-> <<" ">> \o PhCached(s_env, s_VAR_KEY, None, None)],
               [pre |-> PhCached(s_env, s_VAR_KEY, None, None) \o <<" ">>, post |-> <<>>]}}

CachedEmptyText(r) == r.pre \o <<"$", "{", "}">> \o r.post

CachedInputs ==
    {CachedOneText(r) : r \in CachedOneCases}
      \cup {CachedTwoText(r) : r \in CachedTwoCases}
      \cup {CachedLaterText(r) : r \in CachedLaterCases}
      \cup {CachedEmptyText(r) : r \in CachedEmptyCases}
      \cup {s_asd}

SeqInputs ==
    {PlainText(r) : r \in PlainCases} \cup {NestedText(r) : r \in NestedCases}
      \cup {EscapedText(r) : r \in EscapedCases}
      \cup {EscapedTwiceText(r) : r \in EscapedCases}
      \cup {EscapedDollarText(r) : r \in EscapedCases}
      \cup {DefaultText(r) : r \in DefaultCases}
      \cup TestInputs
      \cup NoMatchTexts
      \cup {MixedText(r) : r \in MixedCases}
      \cup {TwoText(r) : r \in TwoCases}
      \cup {EmptyText(r) : r \in EmptyCases}

ConcInputs ==
    {Ph(s_test, s_123, None), Ph(s_test_2, s_123, None),
     Ph(s_env, s_VAR_KEY, None) \o Ph(s_test, s_2, None)}

LiveInputs ==
    {Ph(s_env, s_LOOP, None), Ph(s_env, s_VAR_KEY, None),
     Esc(Ph(s_env, s_LOOP, None)), Ph(s_foo, s_LOOP, None),
     <<"$", "{">> \o s_env \o <<":">> \o s_VAR_ \o Ph(s_env, s_VAR_1, None)
       \o <<"}">>}

(* The root dialect writes a default as ${c:p:d}. *)
PhRoot(c, p, d) ==
    <<"$", "{">> \o c \o <<":">> \o p
      \o (IF IsSome(d) THEN <<":">> \o Unwrap(d) ELSE <<>>) \o <<"}">>

RootInputs ==
    {s_asd \o PhRoot(s_test, s_123, None),
     s_asd \o PhRoot(s_test, s_123, None) \o <<" ">>
           \o PhRoot(s_test_2, s_123, None),
     s_asd \o PhRoot(s_test, s_123, None) \o <<" ">>
           \o PhRoot(s_test_2, s_123, Some(s_my_default_value)),
     s_asd \o PhRoot(s_env, s_123, None),
     s_asd \o PhRoot(s_test, s_123, None) \o <<" ">>
           \o PhRoot(s_test, s_123, None),
     <<"$", "{">> \o s_test \o <<":">> \o s_VAR_ \o PhRoot(s_test, s_2, None)
       \o <<"}">>,
     PhRoot(s_test_2, s_2, Some(PhRoot(s_test, s_123, None))),
     Esc(PhRoot(s_test, s_123, None)),
     <<"$", "{", "}">>,
     s_asd}
      \cup {EmptyText(r) : r \in EmptyCases}

(* The texts of a long run of calls on the root dialect's one TestCommand: *)
(* each has one match that reaches the handler, under either of its ids,   *)
(* next to a match of an unregistered command. *)
LongRunInputs ==
    {PhRoot(s_test, s_2, None),
     PhRoot(s_foo, s_2, None) \o <<" ">> \o PhRoot(s_test_2, s_2, Some(s_b))}

----------------------------------------------------------------------------
(* State *)

VARIABLES
    mode,                 \* which configuration this run explores
    pc,                   \* where each caller is in interpolate_string
    calls,                \* calls each caller has started
    original,             \* the argument of the current call
    interpolated_string,  \* the working text of interpolate_string
    matches,              \* the captures of the current pass's scan
    idx,                  \* the for loop's position in matches
    resulting_string,     \* the working text of replace_values
    exclusion_only,       \* replace_values' flag
    value,                \* the resolved value of the current match
    result,               \* what the call returned
    owner,                \* per handler mutex: the caller holding it, or 0
    counter,              \* TestCommand.counter
    world,                \* runs of `tick` so far (the world ShCommand reads)
    interpolations,       \* the cache of the cached interpolator's call
    log,                  \* history: the call's handler invocations and fetches
    passes,               \* history: the call's passes (scans)
    expected              \* history: matches found so far that dispatch

vars == <<mode, pc, calls, original, interpolated_string, matches, idx,
          resulting_string, exclusion_only, value, result, owner, counter, world,
          interpolations, log, passes, expected>>

Variant ==
    IF mode = "root" THEN "root"
    ELSE IF mode = "cached" THEN "cached"
    ELSE "crate"

Callers == IF mode = "conc" THEN Procs ELSE {1}

Inputs ==
    CASE mode = "seq"  -> SeqInputs
      [] mode = "conc" -> ConcInputs
      [] mode = "live" -> LiveInputs
      [] mode = "rep"  -> RepeatInputs \cup TestInputs
      [] mode = "space" -> SpacedInputs
      [] mode = "cached" -> CachedInputs
      [] mode = "root" -> IF calls[1] < MaxCalls THEN RootInputs
                          ELSE LongRunInputs

(* Variant of CurrentMatch: the for loop walks the scan from its end. *)
CurrentMatch_reversed(p) == matches[p][Len(matches[p]) + 1 - idx[p]]

CurrentMatch(p) == matches[p][idx[p]]

(* History only: a non-escaped match whose command_id is a key of the      *)
(* registry. *)
MapsToHandler(v, m) ==
    /\ m.exclude = None
    /\ m.command # None
    /\ \E id \in DOMAIN command_map(v) : m.command = Some(id)

InitMode(m) ==
    /\ mode = m
    /\ pc = [p \in Procs |-> "idle"]
    /\ calls = [p \in Procs |-> 0]
    /\ original = [p \in Procs |-> <<>>]
    /\ interpolated_string = [p \in Procs |-> <<>>]
    /\ matches = [p \in Procs |-> <<>>]
    /\ idx = [p \in Procs |-> 0]
    /\ resulting_string = [p \in Procs |-> <<>>]
    /\ exclusion_only = [p \in Procs |-> TRUE]
    /\ value = [p \in Procs |-> <<>>]
    /\ result = [p \in Procs |-> <<>>]
    /\ owner = [h \in Handlers |-> 0]
    /\ counter = 0
    /\ world = 0
    /\ interpolations = [p \in Procs |-> <<>>]
    /\ log = [p \in Procs |-> <<>>]
    /\ passes = [p \in Procs |-> 0]
    /\ expected = 0

Init == InitMode("seq")

(* A caller calls interpolate_string(text).  The cache is a local of the   *)
(* cached interpolator's call; the other dialects have none and theirs     *)
(* stays empty. *)
Start(p, text) ==
    /\ p \in Callers
    /\ pc[p] \in {"idle", "returned"}
    /\ calls[p] < (IF mode = "root" THEN MaxRootCalls ELSE MaxCalls)
    /\ calls' = [calls EXCEPT ![p] = @ + 1]
    /\ original' = [original EXCEPT ![p] = text]
    /\ interpolated_string' = [interpolated_string EXCEPT ![p] = text]
    /\ matches' = [matches EXCEPT ![p] = <<>>]
    /\ idx' = [idx EXCEPT ![p] = 0]
    /\ resulting_string' = [resulting_string EXCEPT ![p] = <<>>]
    /\ exclusion_only' = [exclusion_only EXCEPT ![p] = TRUE]
    /\ value' = [value EXCEPT ![p] = <<>>]
    /\ result' = [result EXCEPT ![p] = <<>>]
    /\ log' = [log EXCEPT ![p] = <<>>]
    /\ passes' = [passes EXCEPT ![p] = 0]
    /\ pc' = [pc EXCEPT ![p] = "while"]
    /\ interpolations' = [interpolations EXCEPT ![p] = new_cache(@)]
    /\ UNCHANGED <<mode, owner, counter, world, expected>>

(* The loop test of interpolate_string and, when it holds, the entry of    *)
(* replace_values: the scan of this pass. *)
WhileCheck(p) ==
    /\ pc[p] = "while"
    /\ IF is_match(Variant, interpolated_string[p])
       THEN LET ms == captures_iter(Variant, interpolated_string[p])
            IN  /\ matches' = [matches EXCEPT ![p] = ms]
                /\ idx' = [idx EXCEPT ![p] = 1]
                /\ resulting_string' =
                     [resulting_string EXCEPT ![p] = interpolated_string[p]]
                /\ exclusion_only' = [exclusion_only EXCEPT ![p] = TRUE]
                /\ passes' = [passes EXCEPT ![p] =
                                IF @ < MaxPasses THEN @ + 1 ELSE @]
                /\ expected' =
                     IF mode = "root"
                     THEN expected + Cardinality(
                            {k \in 1..Len(ms) : MapsToHandler(Variant, ms[k])})
                     ELSE expected
                /\ pc' = [pc EXCEPT ![p] = "for"]
       ELSE /\ pc' = [pc EXCEPT ![p] = "finish"]
            /\ UNCHANGED <<matches, idx, resulting_string, exclusion_only,
                           passes, expected>>
    /\ UNCHANGED <<mode, interpolations,
                   calls, original, interpolated_string, value, result,
                   owner, counter, world, log>>

(* One turn of the for loop of replace_values, up to the point where it    *)
(* needs a handler: the end of the pass, an escaped match skipped, a match *)
(* sent to its handler, or a match resolved to "" with no handler. *)
ForStep(p) ==
    /\ pc[p] = "for"
    /\ IF idx[p] > Len(matches[p])
       THEN /\ interpolated_string' =
                 [interpolated_string EXCEPT ![p] = resulting_string[p]]
            /\ pc' = [pc EXCEPT ![p] =
                        IF loop_breaks(Variant, exclusion_only[p])
                        THEN "finish" ELSE "while"]
            /\ UNCHANGED <<idx, exclusion_only, value>>
       ELSE IF IsSome(CurrentMatch(p).exclude)
       THEN /\ idx' = [idx EXCEPT ![p] = @ + 1]
            /\ UNCHANGED <<interpolated_string, pc, exclusion_only, value>>
       ELSE /\ exclusion_only' = [exclusion_only EXCEPT ![p] = FALSE]
            /\ IF dispatches(Variant, CurrentMatch(p))
               THEN /\ pc' = [pc EXCEPT ![p] = "lock"]
                    /\ UNCHANGED value
               ELSE /\ pc' = [pc EXCEPT ![p] = "replace"]
                    /\ value' = [value EXCEPT ![p] =
                                   no_handler_value(CurrentMatch(p))]
            /\ UNCHANGED <<interpolated_string, idx>>
    /\ UNCHANGED <<mode, interpolations,
                   calls, original, matches, resulting_string, result,
                   owner, counter, world, log, passes, expected>>

(* command.lock().await completes: the handler's mutex is free and taken. *)
Acquire(p) ==
    /\ pc[p] = "lock"
    /\ LET h == mutex_of(Variant, Unwrap(CurrentMatch(p).command))
       IN  /\ lock_ready(owner, h)
           /\ owner' = [owner EXCEPT ![h] = p]
    /\ pc' = [pc EXCEPT ![p] = "process"]
    /\ UNCHANGED <<mode, interpolations,
                   calls, original, interpolated_string, matches, idx,
                   resulting_string, exclusion_only, value, result, counter, world,
                   log, passes, expected>>

(* The handler's process runs and the guard is dropped: process returns,  *)
(* or it panics at the counter's overflow; the panic unwinds through       *)
(* interpolate_string, dropping the guard on its way, and the call never   *)
(* returns. *)
Return(p) ==
    /\ pc[p] = "process"
    /\ LET m == CurrentMatch(p)
           h == Unwrap(map_get(Variant, Unwrap(m.command)))
           a == call_args(m)
       IN  \E spawned \in spawn_results(h),
              after \in counter_after(Variant, h, counter) :
             LET r == process(h, a.command, a.args, a.field, a.default_value,
                              world, spawned)
             IN  /\ owner' = owner_after_return(
                                owner, mutex_of(Variant, Unwrap(m.command)))
                 /\ IF IsSome(after)
                    THEN /\ counter' = Unwrap(after)
                         /\ value' = [value EXCEPT ![p] = r]
                         /\ world' = world_after(h, a.args, world, spawned)
                         /\ log' = [log EXCEPT ![p] =
                                      IF Len(@) < MaxLog
                                      THEN Append(@,
                                             [handler |-> h,
                                              command |-> a.command,
                                              args |-> a.args,
                                              field |-> a.field,
                                              default_value |-> a.default_value,
                                              ret |-> r, pass |-> passes[p],
                                              start |-> m.start])
                                      ELSE @]
                         /\ pc' = [pc EXCEPT ![p] = "replace"]
                    ELSE /\ pc' = [pc EXCEPT ![p] = "panicked"]
                         /\ UNCHANGED <<counter, value, world, log>>
    /\ UNCHANGED <<mode, interpolations,
                   calls, original, interpolated_string, matches, idx,
                   resulting_string, exclusion_only, result, passes, expected>>

(* resulting_string.replace(matched_full_string, value) *)
Replace(p) ==
    /\ pc[p] = "replace"
    /\ resulting_string' = [resulting_string EXCEPT ![p] =
                              replace(@, CurrentMatch(p).full, value[p])]
    /\ idx' = [idx EXCEPT ![p] = @ + 1]
    /\ pc' = [pc EXCEPT ![p] = "for"]
    /\ UNCHANGED <<mode, interpolations,
                   calls, original, interpolated_string, matches,
                   exclusion_only, value, result, owner, counter, world, log, passes,
                   expected>>

(* The end of interpolate_string: the unescape pass (crate dialect) and    *)
(* the return. *)
Finish(p) ==
    /\ pc[p] = "finish"
    /\ result' = [result EXCEPT ![p] =
                    returned_string(Variant, interpolated_string[p])]
    /\ pc' = [pc EXCEPT ![p] = "returned"]
    /\ UNCHANGED <<mode, interpolations,
                   calls, original, interpolated_string, matches, idx,
                   resulting_string, exclusion_only, value, owner, counter, world,
                   log, passes, expected>>

(* One turn of the for loop of the cached replace_values, up to the point  *)
(* where it needs a fetch: the end of the pass; a match with no type or no *)
(* path, which is passed over; a match served from the cache; a match of   *)
(* an unknown type, resolved to ""; or a match whose entry is to be        *)
(* fetched. *)
CachedFor(p) ==
    /\ pc[p] = "for"
    /\ IF idx[p] > Len(matches[p])
       THEN /\ interpolated_string' =
                 [interpolated_string EXCEPT ![p] = resulting_string[p]]
            /\ pc' = [pc EXCEPT ![p] = "while"]
            /\ UNCHANGED <<idx, value, interpolations>>
       ELSE IF ~has_type_and_path(CurrentMatch(p))
       THEN /\ idx' = [idx EXCEPT ![p] = @ + 1]
            /\ UNCHANGED <<interpolated_string, pc, value, interpolations>>
       ELSE LET m == CurrentMatch(p)
                type_name == Unwrap(m.command)
                path == Unwrap(m.args)
                entry == cached_entry(interpolations[p], type_name, path)
            IN  /\ interpolations' =
                     [interpolations EXCEPT ![p] =
                        cache_touched(@, type_name, path)]
                /\ IF IsSome(entry) \/ ~IsSome(EntryType_from_str(type_name))
                   THEN /\ value' = [value EXCEPT ![p] =
                                       entry_value(entry, field_of(m),
                                                   m.default_value)]
                        /\ pc' = [pc EXCEPT ![p] = "replace"]
                   ELSE /\ pc' = [pc EXCEPT ![p] = "fetch"]
                        /\ UNCHANGED value
                /\ UNCHANGED <<interpolated_string, idx>>
    /\ UNCHANGED <<mode, calls, original, matches, resulting_string,
                   exclusion_only, result, owner, counter, world, log, passes,
                   expected>>

(* fetch_entry(..).await: it returns, and the entry goes into the cache    *)
(* and gives the match its value; or it panics because the shell could not *)
(* be spawned, and the call never returns. *)
Fetch(p) ==
    /\ pc[p] = "fetch"
    /\ LET m == CurrentMatch(p)
           type_name == Unwrap(m.command)
           path == Unwrap(m.args)
           entry_type == Unwrap(EntryType_from_str(type_name))
       IN  \E resp \in VaultResponses(entry_type),
              spawned \in spawn_results(entry_type) :
             IF fetch_entry_panics(entry_type, spawned)
             THEN /\ pc' = [pc EXCEPT ![p] = "panicked"]
                  /\ UNCHANGED <<interpolations, value, world, log>>
             ELSE LET entry == fetch_entry(entry_type, path, m.default_value,
                                           world, resp)
                      r == entry_value(Some(entry), field_of(m),
                                       m.default_value)
                  IN  /\ interpolations' =
                           [interpolations EXCEPT ![p] =
                              cache_stored(@, type_name, path, entry)]
                      /\ value' = [value EXCEPT ![p] = r]
                      /\ world' = world_after_fetch(entry_type, path, world,
                                                    spawned)
                      /\ log' = [log EXCEPT ![p] =
                                   IF Len(@) < MaxLog
                                   THEN Append(@,
                                          [handler |-> entry_type,
                                           command |-> type_name,
                                           args |-> path, field |-> m.field,
                                           default_value |-> m.default_value,
                                           ret |-> r, pass |-> passes[p],
                                           start |-> m.start])
                                   ELSE @]
                      /\ pc' = [pc EXCEPT ![p] = "replace"]
    /\ UNCHANGED <<mode, calls, original, interpolated_string, matches, idx,
                   resulting_string, exclusion_only, result, owner, counter,
                   passes, expected>>

Next ==
    \E p \in Procs :
        \/ \E text \in Inputs : Start(p, text)
        \/ WhileCheck(p)
        \/ ForStep(p)
        \/ Acquire(p)
        \/ Return(p)
        \/ Replace(p)
        \/ Finish(p)

Spec == Init /\ [][Next]_vars

SpecConc == InitMode("conc") /\ [][Next]_vars

SpecRoot == InitMode("root") /\ [][Next]_vars

SpecRepeat == InitMode("rep") /\ [][Next]_vars

SpecSpace == InitMode("space") /\ [][Next]_vars

(* The cached interpolator: the same loop with its own for loop and its    *)
(* fetch in place of the dispatch. *)
NextCached ==
    \E p \in Procs :
        \/ \E text \in Inputs : Start(p, text)
        \/ WhileCheck(p)
        \/ CachedFor(p)
        \/ Fetch(p)
        \/ Replace(p)
        \/ Finish(p)

SpecCached == InitMode("cached") /\ [][NextCached]_vars

(* SpecCached where a call that can take a step eventually takes one. *)
SpecCachedFair ==
    /\ InitMode("cached")
    /\ [][NextCached]_vars
    /\ \A p \in Procs :
          WF_vars(WhileCheck(p) \/ CachedFor(p) \/ Fetch(p) \/ Replace(p)
                    \/ Finish(p))

SpecLive == InitMode("live") /\ [][Next]_vars /\ WF_vars(Next)

(* SpecConc with the scheduling the runtime gives: a caller that can go   *)
(* on does so, and a caller waiting for a mutex gets it if the mutex is    *)
(* free again and again (tokio's Mutex serves its waiters first come,      *)
(* first served).  Nothing obliges a caller to start a call. *)
SpecConcFair ==
    /\ InitMode("conc")
    /\ [][Next]_vars
    /\ \A p \in Procs :
          /\ WF_vars(WhileCheck(p) \/ ForStep(p) \/ Return(p) \/ Replace(p)
                       \/ Finish(p))
          /\ SF_vars(Acquire(p))

----------------------------------------------------------------------------
(* Properties *)

Contains(s, t) == \E i \in 1..Len(s) : HasPrefixAt(s, i, t)

Registered(c) == c \in DOMAIN command_map(Variant)

Returned(p) == pc[p] = "returned"

(* C1: nested placeholders resolve innermost-first.  For an input          *)
(* pre ${c:P${c:Q}} post with c registered, the handler is invoked for Q   *)
(* and then, in a later pass, for P followed by what it returned for Q;    *)
(* it is never invoked with a path that contains the inner placeholder's   *)
(* text; and the call returns pre, the second return value, post. *)
C1_InnermostFirst ==
    \A p \in Procs : \A r \in NestedCases :
        (original[p] = NestedText(r) /\ Registered(r.c)) =>
            /\ \A k \in 1..Len(log[p]) :
                   ~Contains(log[p][k].args, Ph(r.c, r.q, None))
            /\ Len(log[p]) >= 1 =>
                   /\ log[p][1].command = r.c
                   /\ log[p][1].args = r.q
            /\ Len(log[p]) >= 2 =>
                   /\ log[p][2].command = r.c
                   /\ log[p][2].args = r.outer \o log[p][1].ret
                   /\ log[p][1].pass < log[p][2].pass
            /\ Returned(p) =>
                   /\ Len(log[p]) = 2
                   /\ result[p] = r.pre \o log[p][2].ret \o r.post

(* The test it_interpolates_constructed_env_vars has returned:             *)
(* "asd ${env:VAR_${env:VAR_1}}" gave "asd VAR_VALUE". *)
C1_Witness ==
    /\ Returned(1)
    /\ original[1] = s_asd \o <<"$", "{">> \o s_env \o <<":">> \o s_VAR_
                       \o Ph(s_env, s_VAR_1, None) \o <<"}">>
    /\ Len(log[1]) = 2
    /\ log[1][1].args = s_VAR_1
    /\ log[1][2].args = s_VAR_2
    /\ result[1] = s_asd \o s_VAR_VALUE

(* Whether every placeholder the matcher finds in text is escaped. *)
OnlyEscaped(text) ==
    LET ms == captures_iter("crate", text)
    IN  /\ ms # <<>>
        /\ \A k \in 1..Len(ms) : IsSome(ms[k].exclude)

(* text without the leading `$` of each escaped match, match by match. *)
RECURSIVE UnescapedFrom(_, _, _)
UnescapedFrom(text, ms, k) ==
    IF k > Len(ms) THEN SubSeq(text, IF k = 1 THEN 1 ELSE ms[k - 1].end + 1,
                               Len(text))
    ELSE SubSeq(text, IF k = 1 THEN 1 ELSE ms[k - 1].end + 1, ms[k].start - 1)
           \o (IF IsSome(ms[k].exclude)
               THEN SubSeq(text, ms[k].start + 1, ms[k].end)
               ELSE ms[k].full)
           \o UnescapedFrom(text, ms, k + 1)

Unescaped(text) == UnescapedFrom(text, captures_iter("crate", text), 1)

(* C2: for an input whose only placeholders are escaped, the call returns  *)
(* after a single pass, each escaped placeholder has become the literal    *)
(* ${c:p}, all other text is unchanged, and no handler was invoked. *)
C2_EscapedOnly ==
    \A p \in Procs :
        OnlyEscaped(original[p]) =>
            /\ log[p] = <<>>
            /\ passes[p] <= 1
            /\ Returned(p) => result[p] = Unescaped(original[p])

(* C5: a non-escaped placeholder whose command is not registered resolves  *)
(* to the empty string and reaches no handler: no invocation ever carries  *)
(* an unregistered command, the value substituted for such a match is      *)
(* empty, and a text with one such placeholder (alone, or nesting another) *)
(* returns as the text around it. *)
C5_UnknownCommandEmpty ==
    \A p \in Procs :
        /\ \A k \in 1..Len(log[p]) : Registered(log[p][k].command)
        /\ (/\ pc[p] = "replace"
            /\ IsSome(CurrentMatch(p).command)
            /\ ~Registered(Unwrap(CurrentMatch(p).command)))
               => value[p] = <<>>
        /\ \A r \in PlainCases :
               (original[p] = PlainText(r) /\ ~Registered(r.c)) =>
                   /\ log[p] = <<>>
                   /\ Returned(p) => result[p] = r.pre \o r.post
        /\ \A r \in NestedCases :
               (original[p] = NestedText(r) /\ ~Registered(r.c)) =>
                   /\ log[p] = <<>>
                   /\ Returned(p) => result[p] = r.pre \o r.post

(* "asd ${foo:123} b" has returned "asd  b" with no invocation. *)
C5_Witness ==
    /\ Returned(1)
    /\ original[1] = s_asd \o Ph(s_foo, s_123, None) \o s_b
    /\ result[1] = s_asd \o s_b
    /\ log[1] = <<>>

(* C6 as stated: ${c:p:-d} with c not registered is replaced by d. *)
C6_UnknownCommandDefault ==
    \A p \in Procs : \A r \in PlainCases :
        (/\ original[p] = PlainText(r)
         /\ ~Registered(r.c)
         /\ IsSome(r.d)
         /\ Returned(p))
            => result[p] = r.pre \o Unwrap(r.d) \o r.post

(* C6 as amended: ${c:p:-d} with c not registered is replaced by the empty *)
(* string; its default is not used and no handler is invoked. *)
C6_UnknownCommandIgnoresDefault ==
    \A p \in Procs : \A r \in PlainCases :
        (/\ original[p] = PlainText(r)
         /\ ~Registered(r.c)
         /\ IsSome(r.d)
         /\ Returned(p))
            => /\ result[p] = r.pre \o r.post
               /\ log[p] = <<>>
               /\ passes[p] = 1

(* "asd ${foo:123:-default_value}" has returned "asd ". *)
C6_Witness ==
    /\ Returned(1)
    /\ original[1] = s_asd \o Ph(s_foo, s_123, Some(s_default_value))
    /\ result[1] = s_asd

(* The cases of DefaultCases whose outer placeholder resolves to its       *)
(* default: an unset variable, and test_2, which echoes its default. *)
ResolvesToDefault(r) ==
    \/ r.c = s_env /\ r.p \notin DOMAIN Environment
    \/ r.c = s_test_2

(* C7 as stated: a placeholder that resolves to its default, the default   *)
(* being placeholder text, leaves that text literally in the result and    *)
(* no handler is invoked for it. *)
C7_DefaultIsFinal ==
    \A p \in Procs : \A r \in DefaultCases :
        (original[p] = DefaultText(r) /\ ResolvesToDefault(r)) =>
            /\ Len(log[p]) <= 1
            /\ Returned(p) =>
                   result[p] = r.pre \o Ph(r.dc, r.dp, None) \o r.post

(* C7 as amended: the default is handed to the handler and substituted as  *)
(* written, and the next pass scans it like any other text: placeholder    *)
(* text inside it is resolved then (its handler invoked when its command   *)
(* is registered, the empty string otherwise), and the result holds that   *)
(* resolution. *)
C7_DefaultIsRescanned ==
    \A p \in Procs : \A r \in DefaultCases :
        (original[p] = DefaultText(r) /\ ResolvesToDefault(r)) =>
            /\ Len(log[p]) >= 1 =>
                   /\ log[p][1].command = r.c
                   /\ log[p][1].default_value = Some(Ph(r.dc, r.dp, None))
                   /\ log[p][1].ret = Ph(r.dc, r.dp, None)
                   /\ log[p][1].pass = 1
            /\ Len(log[p]) >= 2 =>
                   /\ log[p][2].command = r.dc
                   /\ log[p][2].args = r.dp
                   /\ log[p][2].pass = 2
            /\ Returned(p) =>
                   IF Registered(r.dc)
                   THEN /\ Len(log[p]) = 2
                        /\ result[p] = r.pre \o log[p][2].ret \o r.post
                   ELSE /\ Len(log[p]) = 1
                        /\ result[p] = r.pre \o r.post

(* "${env:UNSET_KEY:-${env:VAR_1}}" has returned "2": the default was      *)
(* substituted in pass 1 and resolved in pass 2. *)
C7_Witness ==
    /\ Returned(1)
    /\ original[1] = Ph(s_env, s_UNSET_KEY, Some(Ph(s_env, s_VAR_1, None)))
    /\ Len(log[1]) = 2
    /\ log[1][1].ret = Ph(s_env, s_VAR_1, None)
    /\ log[1][2].args = s_VAR_1
    /\ result[1] = s_2

(* C8: for a non-escaped placeholder whose command is registered, the      *)
(* handler registered under that id is called once with the command as     *)
(* written, the path, and the default (absent without a `:-` part, the     *)
(* exact default text otherwise), and the placeholder is replaced by what  *)
(* the handler returned. *)
C8_HandlerCall ==
    \A p \in Procs : \A r \in PlainCases :
        (original[p] = PlainText(r) /\ Registered(r.c)) =>
            /\ Len(log[p]) <= 1
            /\ Len(log[p]) = 1 =>
                   /\ log[p][1].handler = command_map(Variant)[r.c]
                   /\ log[p][1].command = r.c
                   /\ log[p][1].args = r.p
                   /\ log[p][1].default_value = r.d
                   /\ r.c = s_test => log[p][1].ret = r.p
                   /\ r.c = s_test_2 => log[p][1].ret = UnwrapOr(r.d, s_default)
            /\ pc[p] = "replace" => value[p] = log[p][1].ret
            /\ Returned(p) =>
                   /\ Len(log[p]) = 1
                   /\ result[p] = r.pre \o log[p][1].ret \o r.post

(* "asd ${test_2:123:-my default value}" has returned                      *)
(* "asd my default value". *)
C8_Witness ==
    /\ Returned(1)
    /\ original[1] = s_asd \o Ph(s_test_2, s_123, Some(s_my_default_value))
    /\ Len(log[1]) = 1
    /\ log[1][1].default_value = Some(s_my_default_value)
    /\ result[1] = s_asd \o s_my_default_value

(* C10: the env provider returns the variable's value when it is set,      *)
(* otherwise the placeholder's default when there is one, otherwise the    *)
(* empty string; so ${env:A:-d} with A unset yields d and ${env:A} yields  *)
(* the empty string. *)
C10_EnvFallback ==
    \A p \in Procs :
        /\ \A k \in 1..Len(log[p]) :
               log[p][k].handler = "env_cmd" =>
                   log[p][k].ret =
                       IF log[p][k].args \in DOMAIN Environment
                       THEN Environment[log[p][k].args]
                       ELSE IF log[p][k].default_value # None
                       THEN log[p][k].default_value[1]
                       ELSE <<>>
        /\ \A r \in PlainCases :
               (original[p] = PlainText(r) /\ r.c = s_env /\ Returned(p)) =>
                   result[p] =
                       r.pre
                         \o (IF r.p = s_VAR_KEY THEN s_VAR_VALUE
                             ELSE IF r.d # None THEN r.d[1] ELSE <<>>)
                         \o r.post

(* "asd ${env:UNSET_KEY:-default_value}" has returned "asd default_value". *)
C10_Witness ==
    /\ Returned(1)
    /\ original[1] = s_asd \o Ph(s_env, s_UNSET_KEY, Some(s_default_value))
    /\ Len(log[1]) = 1
    /\ log[1][1].handler = "env_cmd"
    /\ result[1] = s_asd \o s_default_value

(* C3: every call returns.  Checked under SpecLive, where a caller that    *)
(* can take a step eventually takes one. *)
C3_Terminates == \A p \in Procs : (pc[p] = "while") ~> (pc[p] = "returned")

(* The handler instance whose process a caller is running. *)
Running(p) == command_map(Variant)[Unwrap(CurrentMatch(p).command)]

(* C4: at most one process invocation is in progress on a handler instance *)
(* at any time, also when the instance is registered under several ids. *)
C4_MutualExclusion ==
    \A p, q \in Procs :
        (p # q /\ pc[p] = "process" /\ pc[q] = "process")
            => Running(p) # Running(q)

(* One caller runs the TestCommand as "test" while another waits for the   *)
(* same instance as "test_2". *)
C4_Witness ==
    \E p, q \in Procs :
        /\ pc[p] = "process"
        /\ pc[q] = "lock"
        /\ CurrentMatch(p).command = Some(s_test)
        /\ CurrentMatch(q).command = Some(s_test_2)
        /\ owner["test_cmd"] = p

(* The matches of the current pass that the for loop has not yet taken to  *)
(* the end of their handler call. *)
Pending(p) ==
    IF pc[p] \in {"for", "lock", "process", "replace"}
    THEN Cardinality({k \in 1..Len(matches[p]) :
            /\ MapsToHandler(Variant, matches[p][k])
            /\ IF pc[p] = "replace" THEN k > idx[p] ELSE k >= idx[p]})
    ELSE 0

(* C9 as stated: across any sequence of calls the TestCommand is invoked   *)
(* exactly once for each match (per occurrence and per pass) whose         *)
(* command_id maps to it, so that its counter equals the number of such    *)
(* matches found; matches of unregistered commands add nothing. *)
C9_InvocationCount ==
    /\ counter + Pending(1) = expected
    /\ pc[1] \in {"idle", "returned"} => counter = expected

(* C9, amended: the TestCommand is invoked exactly once for each match     *)
(* (per occurrence and per pass) whose command_id maps to it, and matches  *)
(* of unregistered commands add nothing; its counter equals the number of  *)
(* such matches as long as that number is at most 255.  The 256th          *)
(* invocation overflows the u8: either it panics, the counter stays at 255 *)
(* and the call never returns (the mutex is released by the unwinding), or *)
(* the counter wraps to 0 and from then on equals the number of such       *)
(* matches modulo 256. *)
C9_InvocationCountU8 ==
    /\ expected <= 255 =>
          /\ pc[1] # "panicked"
          /\ counter + Pending(1) = expected
          /\ pc[1] \in {"idle", "returned"} => counter = expected
    /\ pc[1] # "panicked" =>
          /\ (counter + Pending(1)) % 256 = expected % 256
          /\ pc[1] \in {"idle", "returned"} => counter = expected % 256
    /\ pc[1] = "panicked" =>
          /\ counter = 255
          /\ expected = 256
          /\ owner["test_cmd"] = 0

(* The call that made the 256th invocation has returned and the counter    *)
(* stands at 0. *)
C9_Witness ==
    /\ Returned(1)
    /\ expected = 256
    /\ counter = 0
    /\ original[1] = PhRoot(s_test, s_2, None)
    /\ result[1] = s_2

(* C11: for an input in which the matcher finds no placeholder, the call   *)
(* makes no pass, invokes no handler and returns the input unchanged.      *)
(* NoMatchTexts are such inputs, whatever the matcher in force says. *)
C11_NoOp ==
    \A p \in Procs :
        (original[p] \in NoMatchTexts
           \/ (pc[p] # "idle" /\ ~is_match(Variant, original[p]))) =>
            /\ log[p] = <<>>
            /\ passes[p] = 0
            /\ pc[p] \notin {"for", "lock", "process", "replace"}
            /\ Returned(p) => result[p] = original[p]

(* "asd ${test:123", a placeholder that is never closed, has returned as   *)
(* it was given. *)
C11_Witness ==
    /\ Returned(1)
    /\ original[1] = s_asd \o <<"$", "{">> \o s_test \o <<":">> \o s_123
    /\ result[1] = original[1]
    /\ log[1] = <<>>

(* The value the non-escaped placeholder of a MixedCases text resolves to. *)
MixedValue(p, r) ==
    IF Registered(r.oc) /\ Len(log[p]) >= 1 THEN log[p][1].ret ELSE <<>>

(* C12: a resolution pass leaves an escaped placeholder untouched whatever *)
(* else the text holds, a byte-identical non-escaped placeholder included: *)
(* while a pass runs the working text still holds the escaped text, and    *)
(* the result holds the literal ${c:p} where the escaped placeholder was,  *)
(* next to the value of the other placeholder. *)
C12_EscapedUntouched ==
    \A p \in Procs : \A r \in MixedCases :
        original[p] = MixedText(r) =>
            /\ pc[p] \in {"for", "lock", "process", "replace"} =>
                   Contains(resulting_string[p], Esc(Ph(r.c, r.p, None)))
            /\ Returned(p) =>
                   result[p] =
                       r.pre
                         \o (IF r.first
                             THEN Ph(r.c, r.p, None) \o <<" ">>
                                    \o MixedValue(p, r)
                             ELSE MixedValue(p, r) \o <<" ">>
                                    \o Ph(r.c, r.p, None))
                         \o r.post

(* C13: a placeholder with a default ends at its own closing brace.  In    *)
(* pre ${c:p:-d} t ${c2:p2} post, with d free of braces and both commands  *)
(* registered, the scan of the first pass yields two matches, the first    *)
(* with default d and the second with command c2 and path p2; each is      *)
(* dispatched on its own; and the result keeps t between the two values. *)
C13_DefaultEndsAtOwnBrace ==
    \A p \in Procs : \A r \in TwoCases :
        original[p] = TwoText(r) =>
            /\ (passes[p] = 1 /\ pc[p] \in {"for", "lock", "process", "replace"}) =>
                   /\ Len(matches[p]) = 2
                   /\ matches[p][1].default_value = Some(r.d)
                   /\ matches[p][2].command = Some(r.c2)
                   /\ matches[p][2].args = Some(r.p2)
            /\ Returned(p) =>
                   /\ Len(log[p]) = 2
                   /\ log[p][1].command = r.c
                   /\ log[p][1].default_value = Some(r.d)
                   /\ log[p][2].command = r.c2
                   /\ log[p][2].args = r.p2
                   /\ result[p] =
                        r.pre \o log[p][1].ret \o r.t \o log[p][2].ret \o r.post

(* C14: when the resolution loop has exited and the unescape pass has not  *)
(* yet run, the scan of the working text finds no non-escaped placeholder: *)
(* every match left is escaped. *)
C14_LoopExitOnlyEscaped ==
    \A p \in Procs :
        pc[p] = "finish" =>
            \A m \in {captures_iter(Variant, interpolated_string[p])[k] :
                        k \in 1..Len(captures_iter(Variant,
                                                   interpolated_string[p]))} :
                IsSome(m.exclude)

(* "$${test:123} ${env:VAR_KEY}" has left the loop after two passes with   *)
(* "$${test:123} VAR_VALUE" as its working text. *)
C14_Witness ==
    /\ pc[1] = "finish"
    /\ original[1] = Esc(Ph(s_test, s_123, None)) \o <<" ">>
                       \o Ph(s_env, s_VAR_KEY, None)
    /\ passes[1] = 2
    /\ interpolated_string[1] =
         Esc(Ph(s_test, s_123, None)) \o <<" ">> \o s_VAR_VALUE

(* C15: the final unescape pass removes exactly one leading `$` from each  *)
(* escaped match of the text the loop left, and changes nothing else: the  *)
(* returned string is that text with one `$` dropped per escaped match,    *)
(* and the placeholder text so produced is not resolved. *)
C15_UnescapeExactlyOne ==
    \A p \in Procs :
        Returned(p) => result[p] = Unescaped(interpolated_string[p])

(* The placeholder ${sh:tick}, whose handler returns a new value at each   *)
(* invocation. *)
Tick == Ph(s_sh, s_tick, None)

(* Whether the invocation of `tick` of this log record printed something,  *)
(* that is, whether the shell was spawned for it. *)
Ran(rec) == rec.ret # <<>>

(* C16: substitution is literal over the whole working string.  Once a     *)
(* match has been resolved, no occurrence of its text is left in the       *)
(* working string of the pass (the value not holding that text itself);    *)
(* so identical placeholders of one pass all receive the value returned    *)
(* for the first of them, although the handler is invoked for each and     *)
(* returns something else for the later ones. *)
C16_LiteralSubstitution ==
    \A p \in Procs :
        /\ (/\ pc[p] = "for"
            /\ idx[p] > 1
            /\ matches[p][idx[p] - 1].exclude = None
            /\ ~Contains(value[p], matches[p][idx[p] - 1].full))
               => ~Contains(resulting_string[p], matches[p][idx[p] - 1].full)
        /\ (original[p] = Tick \o <<" ">> \o Tick /\ Returned(p)) =>
               /\ Len(log[p]) = 2
               /\ Ran(log[p][1]) \/ Ran(log[p][2]) =>
                      log[p][2].ret # log[p][1].ret
               /\ result[p] = log[p][1].ret \o <<" ">> \o log[p][1].ret
        /\ (original[p] = Tick \o Ph(s_test, s_123, None) \o Tick
               /\ Returned(p)) =>
               /\ Len(log[p]) = 3
               /\ Ran(log[p][1]) \/ Ran(log[p][3]) =>
                      log[p][3].ret # log[p][1].ret
               /\ result[p] = log[p][1].ret \o s_123 \o log[p][1].ret
        /\ (original[p] = s_asd \o Tick \o s_b \o Tick \o <<" ">> \o Tick
               /\ Returned(p)) =>
               /\ Len(log[p]) = 3
               /\ Ran(log[p][1]) \/ Ran(log[p][2]) =>
                      log[p][2].ret # log[p][1].ret
               /\ Ran(log[p][1]) \/ Ran(log[p][3]) =>
                      log[p][3].ret # log[p][1].ret
               /\ result[p] = s_asd \o log[p][1].ret \o s_b \o log[p][1].ret
                                \o <<" ">> \o log[p][1].ret

(* "${sh:tick} ${sh:tick}" has returned "1 1" after two runs of tick. *)
C16_Witness ==
    /\ Returned(1)
    /\ original[1] = Tick \o <<" ">> \o Tick
    /\ world = 2
    /\ log[1][1].ret = <<"1">>
    /\ log[1][2].ret = <<"2">>
    /\ result[1] = <<"1", " ", "1">>

(* The positions in the text of the matches of the current scan that the   *)
(* for loop has taken through their handler call: those before the loop's  *)
(* position, and the one at it once its call has returned. *)
Dispatched(p) ==
    {matches[p][j].start :
        j \in {i \in 1..Len(matches[p]) :
                 /\ IF pc[p] = "replace" THEN i <= idx[p] ELSE i < idx[p]
                 /\ dispatches(Variant, matches[p][i])}}

(* C17: within one call the handler invocations are sequential and in      *)
(* order.  The invocations of a pass follow the document order of that     *)
(* pass's one scan and a later pass's invocations come after an earlier    *)
(* pass's; at any point of a pass the invocations made in it are exactly   *)
(* the dispatched matches the loop has passed, so that an invocation       *)
(* begins only when the ones before it have returned, and the next scan    *)
(* starts only when all of them have. *)
C17_SequentialInOrder ==
    \A p \in Procs :
        /\ \A k \in 1..(Len(log[p]) - 1) :
               \/ log[p][k].pass < log[p][k + 1].pass
               \/ /\ log[p][k].pass = log[p][k + 1].pass
                  /\ log[p][k].start < log[p][k + 1].start
        /\ (pc[p] \in {"while", "for", "lock", "process", "replace"}
               /\ passes[p] >= 1) =>
               {log[p][k].start :
                   k \in {i \in 1..Len(log[p]) : log[p][i].pass = passes[p]}}
                 = Dispatched(p)
        /\ pc[p] \in {"lock", "process"} =>
               \A k \in 1..Len(log[p]) :
                   log[p][k].pass = passes[p] =>
                       log[p][k].start < CurrentMatch(p).start

(* "${sh:tick} ${env:VAR_KEY} ${test:123}" has returned: the three         *)
(* handlers were invoked in the order of the text. *)
C17_Witness ==
    /\ Returned(1)
    /\ original[1] = Tick \o <<" ">> \o Ph(s_env, s_VAR_KEY, None) \o <<" ">>
                       \o Ph(s_test, s_123, None)
    /\ Len(log[1]) = 3
    /\ log[1][1].handler = "sh_cmd"
    /\ log[1][2].handler = "env_cmd"
    /\ log[1][3].handler = "test_cmd"

(* The handlers whose mutex caller p holds. *)
Held(p) == {h \in Handlers : owner[h] = p}

(* C18: a call holds at most one handler lock at any point; it holds the   *)
(* lock of the handler it is running and nothing else, so the lock is      *)
(* released when process returns, before the substitution and before any   *)
(* other handler is locked. *)
C18_OneLockAtATime ==
    \A p \in Procs :
        /\ Cardinality(Held(p)) <= 1
        /\ pc[p] = "process" => Held(p) = {Running(p)}
        /\ pc[p] # "process" => Held(p) = {}

(* A call that has run the EnvCommand is now running the TestCommand and   *)
(* holds the lock of the TestCommand only. *)
C18_Witness ==
    \E p \in Procs :
        /\ pc[p] = "process"
        /\ Len(log[p]) = 1
        /\ log[p][1].handler = "env_cmd"
        /\ Held(p) = {"test_cmd"}

(* No caller waits for a mutex that nobody is about to release: the mutex  *)
(* a caller waits for is free or held by a caller that is running the      *)
(* handler. *)
NoDeadlock ==
    \A p \in Procs :
        pc[p] = "lock" =>
            LET h == mutex_of(Variant, Unwrap(CurrentMatch(p).command))
            IN  \/ owner[h] = 0
                \/ /\ owner[h] \in Procs
                   /\ pc[owner[h]] = "process"

(* C19: concurrent callers make progress: no deadlock is reachable and,    *)
(* under fair scheduling, every call that has started returns. *)
C19_ConcurrentProgress ==
    /\ []NoDeadlock
    /\ \A p \in Procs :
          (pc[p] \notin {"idle", "returned"}) ~> Returned(p)

(* Both callers have returned from a call after one of them waited for     *)
(* the handler the other was running. *)
C19_Witness ==
    /\ Returned(1)
    /\ Returned(2)
    /\ \E k \in 1..Len(log[1]) : \E j \in 1..Len(log[2]) :
           log[1][k].handler = log[2][j].handler

(* C20: the empty placeholder ${} is matched and replaced by the empty     *)
(* string without any handler call, and the call returns.  In              *)
(* pre ${} post, and in pre ${} ${c:p} post, the first match of the first  *)
(* scan is ${} with no command, the only invocation is the one for ${c:p}  *)
(* when c is registered, and the result is the text with ${} removed and   *)
(* ${c:p} resolved. *)
C20_EmptyPlaceholder ==
    \A p \in Procs : \A r \in EmptyCases :
        original[p] = EmptyText(r) =>
            /\ (passes[p] = 1 /\ pc[p] \in {"for", "lock", "process", "replace"}) =>
                   /\ matches[p][1].full = <<"$", "{", "}">>
                   /\ matches[p][1].command = None
            /\ \A k \in 1..Len(log[p]) :
                   /\ IsSome(r.then)
                   /\ log[p][k].command = Unwrap(r.then)[1]
            /\ Returned(p) =>
                   result[p] =
                       r.pre
                         \o (IF IsSome(r.then)
                             THEN <<" ">>
                                    \o (IF Registered(Unwrap(r.then)[1])
                                        THEN Unwrap(r.then)[2] ELSE <<>>)
                             ELSE <<>>)
                         \o r.post

(* C21: whitespace around the command and the path is trimmed before       *)
(* dispatch, and the default is passed on verbatim.  For                   *)
(* pre ${ c : p } post and pre ${ c : p :- d } post, whatever the          *)
(* whitespace, a registered c is looked up under exactly c: its handler is *)
(* invoked once with (c, p, d), d with its blanks, and the result is the   *)
(* one of ${c:p} or ${c:p:-d}; an unregistered c gives the empty string. *)
C21_WhitespaceTrimmed ==
    \A p \in Procs : \A r \in SpacedCases :
        (original[p] = SpacedText(r) /\ Returned(p)) =>
            IF Registered(r.c)
            THEN /\ Len(log[p]) = 1
                 /\ log[p][1].command = r.c
                 /\ log[p][1].args = r.p
                 /\ log[p][1].default_value = r.d
                 /\ result[p] =
                      r.pre \o TestCommand_process(r.c, r.p, r.d) \o r.post
            ELSE /\ log[p] = <<>>
                 /\ result[p] = r.pre \o r.post

(* The (type, path) slots of a cache that hold an entry. *)
Filled(cache) ==
    {tp \in UNION {{<<t, q>> : q \in DOMAIN cache[t]} : t \in DOMAIN cache} :
        IsSome(cache[tp[1]][tp[2]])}

(* The (type, path) pairs the call has fetched so far. *)
Fetched(p) == {<<log[p][k].command, log[p][k].args>> : k \in 1..Len(log[p])}

(* C22: in the cached interpolator a call fetches each (type, path) pair   *)
(* of a known type at most once, whether the fetch gave a value or not.    *)
(* No two fetches of a call have the same type and path; a call is never   *)
(* about to fetch a pair it has fetched; the entries in the cache are      *)
(* those of the call's own fetches, so the cache is empty when the call    *)
(* starts; and a placeholder of a fetched pair gets its value from the     *)
(* entry in the cache.  The fetches are those that returned an entry, of   *)
(* whatever kind: a secret, the empty kv1 document, a failed read, a text  *)
(* or a default; a fetch that panics ends the call. *)
C22_FetchedAtMostOnce ==
    \A p \in Procs :
        /\ \A i, j \in 1..Len(log[p]) :
              (i # j) =>
                 <<log[p][i].command, log[p][i].args>>
                   # <<log[p][j].command, log[p][j].args>>
        /\ (pc[p] = "fetch") =>
              <<Unwrap(CurrentMatch(p).command), Unwrap(CurrentMatch(p).args)>>
                 \notin Fetched(p)
        /\ (pc[p] \in {"while", "for", "fetch", "replace", "finish",
                        "panicked"}) =>
              Filled(interpolations[p]) = Fetched(p)
        /\ (pc[p] = "replace" /\ has_type_and_path(CurrentMatch(p))
              /\ IsSome(EntryType_from_str(Unwrap(CurrentMatch(p).command)))) =>
              /\ <<Unwrap(CurrentMatch(p).command),
                    Unwrap(CurrentMatch(p).args)>> \in Fetched(p)
              /\ value[p] =
                   entry_value(
                     interpolations[p][Unwrap(CurrentMatch(p).command)]
                                      [Unwrap(CurrentMatch(p).args)],
                     field_of(CurrentMatch(p)),
                     CurrentMatch(p).default_value)

(* A second call has returned from ${sh:tick} \n ${env:UNSET_KEY:${sh:tick}} *)
(* after three passes and two fetches of its own: the script ran once in   *)
(* the first call and once in this one, and the placeholders of the second *)
(* and third pass were served from the cache. *)
C22_Witness ==
    /\ mode = "cached"
    /\ calls[1] = 2
    /\ Returned(1)
    /\ original[1] = CachedLaterText([t |-> s_sh, p |-> s_tick])
    /\ Len(log[1]) = 2
    /\ passes[1] = 3
    /\ world = 2
    /\ result[1] = <<"2", "\n", "2">>

(* C23: in the cached interpolator a placeholder that falls back uses its  *)
(* own default.  For ${t:p:d1} \n ${t:p:d2} (with or without fields) where *)
(* (t, p) is an unset environment variable or a script whose output is not *)
(* text, the first placeholder is replaced by d1 and the second by d2. *)
C23_OwnDefault ==
    \A p \in Procs : \A r \in CachedTwoCases :
        (/\ original[p] = CachedTwoText(r)
         /\ <<r.t, r.p>> \in {<<s_env, s_UNSET_KEY>>, <<s_sh, s_bad>>}
         /\ IsSome(r.d1)
         /\ IsSome(r.d2)
         /\ Returned(p)) =>
            result[p] = Unwrap(r.d1) \o <<"\n">> \o Unwrap(r.d2)

(* C24: the loop of the cached interpolator terminates on the empty        *)
(* placeholder.  A call on a text that contains ${} eventually returns,    *)
(* and what it returns has no ${} left.  Checked under SpecCachedFair,     *)
(* where a call that can take a step eventually takes one. *)
C24_EmptyTerminates ==
    \A p \in Procs : \A r \in CachedEmptyCases :
        (pc[p] = "while" /\ original[p] = CachedEmptyText(r))
            ~> (Returned(p) /\ ~Contains(result[p], <<"$", "{", "}">>))

=============================================================================
